---- MODULE Spec2Model ----
(***************************************************************************)
(* The in-memory register of unistack-org/micro-register-memory: the       *)
(* domain store (memory.records), the TTL sweep, the watcher registry,     *)
(* the event dispatcher (memory.sendEvent) and the Watcher (Next/Stop).    *)
(*                                                                         *)
(* Every section of code that runs under memory's RWMutex is one atomic    *)
(* action.  Code that runs outside the lock (the select statements of      *)
(* sendEvent, Watcher.Next and Watcher.Stop, the range loop of the         *)
(* wildcard LookupService) is split into one action per step.              *)
(***************************************************************************)
EXTENDS Integers, Sequences, FiniteSets, TLC

\* ---------------------------------------------------------------- bounds

\* The clock runs from 0 to MaxTime.
MaxTime == 2
\* Register and Deregister calls made in one behaviour.
MaxOps == 2
\* sendEvent goroutines in flight at the same time.
MaxDisp == 1
\* Threads that call Watcher.Stop, each once.
MaxStop == 2
\* Keys a range loop of the lock study produces: the domains of a wildcard
\* query, the watchers of a snapshot.
MaxRange == 2

\* ------------------------------------------------------------ input sets

Domains == {"d1", "d2"}
Names == {"foo", "bar"}
Versions == {"v1", "v2"}
NodeIds == {"n1", "n2"}
TTLs == {0, 1}
WatcherSeq == <<"w1", "w2">>
WatcherIds == {WatcherSeq[k] : k \in 1..Len(WatcherSeq)}

WildcardDomain == "*"
DefaultDomain == "micro"
\* The metadata of a node as the caller passes it: no "domain" key.
NoDomain == ""
\* A nil *register.Service.
NilService == [Name |-> "", Version |-> "", Domain |-> NoDomain, Nodes |-> {}, Nil |-> TRUE]

VARIABLES
    records,    \* memory.records: domain -> name -> version -> record
    now,        \* the clock time.Now() reads
    ops,        \* Register and Deregister calls made so far
    disp,       \* the sendEvent goroutines, one per slot
    watchers,   \* memory.watchers: the ids in the registry
    wo,         \* Watcher.wo of every constructed Watcher
    exit,       \* Watcher.exit: TRUE once closed
    panicked,   \* TRUE once a goroutine panicked (close of a closed channel): the program is dead
    stop,       \* the threads calling Watcher.Stop
    next,       \* the consumer of each watcher, calling Watcher.Next
    lk,         \* the thread running a wildcard LookupService
    ret,        \* what the last LookupService or ListServices call returned
    mu          \* memory.RWMutex: its holders, and where each thread is with it

vars == <<records, now, ops, disp, watchers, wo, exit, panicked, stop, next, lk, ret, mu>>

storeVars == <<records, now, ops>>
watchVars == <<watchers, wo, exit, panicked, stop, next>>

\* ------------------------------------------------------------ Go's maps

\* m[k] = v
Put(m, k, v) == [x \in (DOMAIN m) \cup {k} |-> IF x = k THEN v ELSE m[x]]

\* delete(m, k)
Del(m, k) == [x \in (DOMAIN m) \ {k} |-> m[x]]

EmptyMap == [x \in {} |-> {}]

\* ------------------------------------------------- the public Service shape

\* A *register.Service: its name, version, Metadata["domain"] and the ids of its nodes.
Service(name, version, domain, ids) ==
    [Name |-> name, Version |-> version, Domain |-> domain, Nodes |-> ids, Nil |-> FALSE]

Result(action, s) == [Action |-> action, Service |-> s]

\* ------------------------------------------------------------- conversions

\* Every node of the request is stored as the caller passed it (Node: n), with the
\* TTL of the call and the time of the call.
serviceToRecord(s, ttl, t) ==
    [Name |-> s.Name,
     Version |-> s.Version,
     Domain |-> s.Domain,
     Nodes |-> [id \in s.Nodes |-> [TTL |-> ttl, LastSeen |-> t, Domain |-> NoDomain]]]

\* The record as a Service: metadata["domain"] is forced to the domain argument.
recordToService(r, domain) ==
    Service(r.Name, r.Version, domain, DOMAIN r.Nodes)

\* --------------------------------------------------- go m.sendEvent(...)

NoEvent == Result("", NilService)

IdleDisp == [pc |-> "idle", ev |-> NoEvent, snap |-> <<>>, i |-> 0]

Slots == 1..MaxDisp

FreeSlots(d) == {k \in DOMAIN d : d[k].pc = "idle"}

\* `go m.sendEvent(ev)`: a new goroutine, in the lowest free slot.
Go(d, ev) ==
    LET k == CHOOSE x \in FreeSlots(d) : \A y \in FreeSlots(d) : x <= y
    IN  [d EXCEPT ![k] = [pc |-> "start", ev |-> ev, snap |-> <<>>, i |-> 0]]

RECURSIVE GoAll(_, _)
GoAll(d, evs) ==
    IF evs = <<>> THEN d ELSE GoAll(Go(d, Head(evs)), Tail(evs))

\* A wildcard LookupService ranges over m.records without the lock: a write
\* to the store while it ranges is recorded in lk.dirty, and the content the
\* store has had since the call began in lk.hist.
Observe(newRecords) ==
    IF lk.pc = "range" /\ newRecords # records
    THEN [lk EXCEPT !.dirty = TRUE, !.hist = @ \cup {newRecords}]
    ELSE lk

\* ---------------------------------------------------------------- Register

\* A faulty node loop, for comparison: it also stamps the nodes the version
\* already has with the TTL and time of the call.
AddNodesStampAll(old, added, ttl, t, domain) ==
    [id \in (DOMAIN old) \cup added |->
        IF id \in added
        THEN [TTL |-> ttl, LastSeen |-> t, Domain |-> domain]
        ELSE [old[id] EXCEPT !.TTL = ttl, !.LastSeen = t]]

\* The node loop when some requested id is new: the new ids are added with the TTL
\* and time of the call and metadata["domain"] set; ids already present are skipped.
AddNodes(old, added, ttl, t, domain) ==
    [id \in (DOMAIN old) \cup added |->
        IF id \in added
        THEN [TTL |-> ttl, LastSeen |-> t, Domain |-> domain]
        ELSE old[id]]

\* A faulty refresh, for comparison: the time is written, the TTL is not.
RefreshNodesKeepTTL(old, ids, ttl, t) ==
    [id \in DOMAIN old |->
        IF id \in ids THEN [old[id] EXCEPT !.LastSeen = t] ELSE old[id]]

\* The else branch: no id was new, every requested node gets the TTL and time of the call.
RefreshNodes(old, ids, ttl, t) ==
    [id \in DOMAIN old |->
        IF id \in ids THEN [old[id] EXCEPT !.TTL = ttl, !.LastSeen = t] ELSE old[id]]

\* The services of the domain after the call.
RegisterServices(srvs, s, ttl, t) ==
    LET r == serviceToRecord(s, ttl, t)
        srvs1 == IF s.Name \in DOMAIN srvs THEN srvs ELSE Put(srvs, s.Name, EmptyMap)
        srvs2 == IF s.Version \in DOMAIN srvs1[s.Name]
                 THEN srvs1
                 ELSE Put(srvs1, s.Name, Put(srvs1[s.Name], s.Version, r))
        old == srvs2[s.Name][s.Version].Nodes
        added == s.Nodes \ DOMAIN old
        nodes == IF added # {}
                 THEN AddNodes(old, added, ttl, t, s.Domain)
                 ELSE RefreshNodes(old, s.Nodes, ttl, t)
    IN  [srvs2 EXCEPT ![s.Name][s.Version].Nodes = nodes]

\* The events of the call: create when the version was absent, update when a node
\* was added by the node loop (which runs after the new record is stored).
RegisterEvents(srvs, s) ==
    LET isNew == ~(s.Name \in DOMAIN srvs /\ s.Version \in DOMAIN srvs[s.Name])
        old == IF isNew THEN s.Nodes ELSE DOMAIN srvs[s.Name][s.Version].Nodes
        addedNodes == (s.Nodes \ old) # {}
    IN  (IF isNew THEN <<Result("create", s)>> ELSE <<>>)
        \o (IF addedNodes THEN <<Result("update", s)>> ELSE <<>>)

Register(domain, name, version, ids, ttl) ==
    LET s == Service(name, version, domain, ids)
        srvs == IF domain \in DOMAIN records THEN records[domain] ELSE EmptyMap
        evs == RegisterEvents(srvs, s)
        recs == Put(records, domain, RegisterServices(srvs, s, ttl, now))
    IN  /\ ~panicked
        /\ ops < MaxOps
        /\ ops' = ops + 1
        /\ Len(evs) <= Cardinality(FreeSlots(disp))
        /\ records' = recs
        /\ disp' = GoAll(disp, evs)
        /\ lk' = Observe(recs)
        /\ UNCHANGED <<now, watchVars, ret, mu>>

\* -------------------------------------------------------------- Deregister

\* The three early returns: the domain, the name or the version is not in the store.
Known(recs, domain, name, version) ==
    /\ domain \in DOMAIN recs
    /\ name \in DOMAIN recs[domain]
    /\ version \in DOMAIN recs[domain][name]

\* A faulty removal loop, for comparison: one listed node that is present
\* takes every node of the version with it.
RemoveNodesAll(old, ids) ==
    [id \in (IF ids \cap DOMAIN old = {} THEN DOMAIN old ELSE {}) |-> old[id]]

\* delete(version.Nodes, n.Id) for every requested node that is present.
RemoveNodes(old, ids) == [id \in (DOMAIN old) \ ids |-> old[id]]

\* A faulty removal, for comparison: the nodes are removed, a version left
\* with no node stays in the store.
DeregisterRecordsKeepEmpty(recs, s) ==
    IF ~(/\ s.Domain \in DOMAIN recs
         /\ s.Name \in DOMAIN recs[s.Domain]
         /\ s.Version \in DOMAIN recs[s.Domain][s.Name])
    THEN recs
    ELSE [recs EXCEPT ![s.Domain][s.Name][s.Version].Nodes =
              [id \in (DOMAIN @) \ s.Nodes |-> @[id]]]

\* The store after the call: unchanged after an early return; else the nodes
\* are removed, and a version left with no node is removed, with the service
\* name when it was its only version.
DeregisterRecords(recs, s) ==
    IF ~Known(recs, s.Domain, s.Name, s.Version) THEN recs
    ELSE LET versions == recs[s.Domain][s.Name]
             nodes == RemoveNodes(versions[s.Version].Nodes, s.Nodes)
         IN  IF DOMAIN nodes # {}
             THEN [recs EXCEPT ![s.Domain][s.Name][s.Version].Nodes = nodes]
             ELSE IF Cardinality(DOMAIN versions) = 1
             THEN [recs EXCEPT ![s.Domain] = Del(@, s.Name)]
             ELSE [recs EXCEPT ![s.Domain][s.Name] = Del(@, s.Version)]

\* Faulty events, for comparison: no early return, a delete event is emitted
\* for a version the store does not have.
DeregisterEventsNoReturn(recs, s) ==
    IF ~(/\ s.Domain \in DOMAIN recs
         /\ s.Name \in DOMAIN recs[s.Domain]
         /\ s.Version \in DOMAIN recs[s.Domain][s.Name])
    THEN <<[Action |-> "delete", Service |-> s]>>
    ELSE IF (DOMAIN recs[s.Domain][s.Name][s.Version].Nodes) \ s.Nodes # {}
    THEN <<[Action |-> "update", Service |-> s]>>
    ELSE <<[Action |-> "delete", Service |-> s]>>

\* The events of the call: none after an early return, update while nodes
\* remain, delete when the version is removed.
DeregisterEvents(recs, s) ==
    IF ~Known(recs, s.Domain, s.Name, s.Version) THEN <<>>
    ELSE IF (DOMAIN recs[s.Domain][s.Name][s.Version].Nodes) \ s.Nodes # {}
    THEN <<Result("update", s)>>
    ELSE <<Result("delete", s)>>

Deregister(domain, name, version, ids) ==
    LET s == Service(name, version, domain, ids)
        evs == DeregisterEvents(records, s)
        recs == DeregisterRecords(records, s)
    IN  /\ ~panicked
        /\ ops < MaxOps
        /\ ops' = ops + 1
        /\ Len(evs) <= Cardinality(FreeSlots(disp))
        /\ records' = recs
        /\ disp' = GoAll(disp, evs)
        /\ lk' = Observe(recs)
        /\ UNCHANGED <<now, watchVars, ret, mu>>

\* ------------------------------------------------------------ the TTL sweep

\* A faulty expiry test, for comparison: a node expires when its age reaches
\* its TTL.
ExpiredAtTTL(n, t) == n.TTL # 0 /\ t - n.LastSeen >= n.TTL

\* if n.TTL != 0 && time.Since(n.LastSeen) > n.TTL
Expired(n, t) == n.TTL # 0 /\ t - n.LastSeen > n.TTL

PruneNodes(nodes, t) == [id \in {x \in DOMAIN nodes : ~Expired(nodes[x], t)} |-> nodes[id]]

\* A faulty sweep, for comparison: a version left with no node is removed
\* with its nodes.
PruneRecordsCollapse(recs, t) ==
    [d \in DOMAIN recs |->
        [n \in DOMAIN recs[d] |->
            [v \in {x \in DOMAIN recs[d][n] :
                        \E id \in DOMAIN recs[d][n][x].Nodes :
                            ~(recs[d][n][x].Nodes[id].TTL # 0
                              /\ t - recs[d][n][x].Nodes[id].LastSeen > recs[d][n][x].Nodes[id].TTL)} |->
                [recs[d][n][v] EXCEPT !.Nodes =
                    [id \in {x \in DOMAIN @ : ~(@[x].TTL # 0 /\ t - @[x].LastSeen > @[x].TTL)} |-> @[id]]]]]]

\* The sweep over every domain, service, version and node, under the lock.
PruneRecords(recs, t) ==
    [d \in DOMAIN recs |->
        [n \in DOMAIN recs[d] |->
            [v \in DOMAIN recs[d][n] |->
                [recs[d][n][v] EXCEPT !.Nodes = PruneNodes(@, t)]]]]

\* One tick of the prune ticker.
ttlPrune ==
    LET recs == PruneRecords(records, now)
    IN  /\ ~panicked
        /\ records' = recs
        /\ lk' = Observe(recs)
        /\ UNCHANGED <<now, ops, disp, watchVars, ret, mu>>

\* Time passes.
Tick ==
    /\ ~panicked
    /\ now < MaxTime
    /\ now' = now + 1
    /\ UNCHANGED <<records, ops, disp, watchVars, lk, ret, mu>>

\* ------------------------------------------------- LookupService, ListServices

NotFound == [err |-> "not found", services |-> {}]

Found(services) == [err |-> "", services |-> services]

\* A faulty lookup, for comparison: a name that is not in the domain gives an
\* empty result and no error.
LookupDirectNoError(recs, domain, name) ==
    IF domain \notin DOMAIN recs
    THEN NotFound
    ELSE IF name \notin DOMAIN recs[domain] \/ DOMAIN recs[domain][name] = {}
    THEN Found({})
    ELSE Found({recordToService(recs[domain][name][v], domain) :
                    v \in DOMAIN recs[domain][name]})

\* LookupService with a domain that is not the wildcard: one critical section
\* under the read lock.
LookupDirect(recs, domain, name) ==
    IF domain \notin DOMAIN recs
    THEN NotFound
    ELSE IF name \notin DOMAIN recs[domain] \/ DOMAIN recs[domain][name] = {}
    THEN NotFound
    ELSE Found({recordToService(recs[domain][name][v], domain) :
                    v \in DOMAIN recs[domain][name]})

\* ListServices with a domain that is not the wildcard.  The range loop names
\* its key `domain`, and the key of a services map is the service name: that
\* key is what recordToService gets as the domain.
ListDirect(recs, domain) ==
    IF domain \notin DOMAIN recs
    THEN Found({})
    ELSE Found(UNION {{recordToService(recs[domain][n][v], n) : v \in DOMAIN recs[domain][n]} :
                        n \in DOMAIN recs[domain]})

NoRet == [op |-> "", domain |-> "", name |-> "", res |-> Found({})]

LookupService(domain, name) ==
    /\ ~panicked
    /\ ret' = [op |-> "LookupService", domain |-> domain, name |-> name,
               res |-> LookupDirect(records, domain, name)]
    /\ UNCHANGED <<storeVars, disp, watchVars, lk, mu>>

ListServices(domain) ==
    /\ ~panicked
    /\ ret' = [op |-> "ListServices", domain |-> domain, name |-> "",
               res |-> ListDirect(records, domain)]
    /\ UNCHANGED <<storeVars, disp, watchVars, lk, mu>>

\* The wildcard LookupService.  `recs := m.records` copies the map header, not
\* the map: the range loop reads the live map, without the lock, and calls the
\* direct LookupService once per domain it produces.
IdleLookup ==
    [pc |-> "idle", op |-> "", name |-> "", start |-> {}, visited |-> {}, acc |-> {},
     dirty |-> FALSE, hist |-> {}]

LookupWildcardBegin(name) ==
    /\ ~panicked
    /\ lk.pc = "idle"
    /\ lk' = [pc |-> "range", op |-> "LookupService", name |-> name, start |-> DOMAIN records,
              visited |-> {}, acc |-> {}, dirty |-> FALSE, hist |-> {records}]
    /\ UNCHANGED <<storeVars, disp, watchVars, ret, mu>>

\* One iteration: the next key of the map, and the direct lookup in that domain.
\* ErrNotFound is skipped (NotFound carries no services), the services of any
\* other result are appended.
LookupWildcardIter(domain) ==
    /\ ~panicked
    /\ lk.pc = "range"
    /\ lk.op = "LookupService"
    /\ domain \in (DOMAIN records) \ lk.visited
    /\ lk' = [lk EXCEPT !.visited = @ \cup {domain},
                        !.acc = @ \cup LookupDirect(records, domain, lk.name).services]
    /\ UNCHANGED <<storeVars, disp, watchVars, ret, mu>>

\* A faulty range loop, for comparison: it may end before every domain was
\* produced.
LookupWildcardReturnEarly ==
    /\ ~panicked
    /\ lk.pc = "range"
    /\ lk.op = "LookupService"
    /\ ret' = [op |-> "LookupService", domain |-> WildcardDomain, name |-> lk.name,
               res |-> IF lk.acc = {} THEN NotFound ELSE Found(lk.acc)]
    /\ lk' = IdleLookup
    /\ UNCHANGED <<storeVars, disp, watchVars, mu>>

\* The end of the range loop.  A key added to the map while the loop runs may be
\* produced or skipped: the loop may end once every key it started with was produced.
LookupWildcardReturn ==
    /\ ~panicked
    /\ lk.pc = "range"
    /\ lk.op = "LookupService"
    /\ lk.start \subseteq lk.visited
    /\ ret' = [op |-> "LookupService", domain |-> WildcardDomain, name |-> lk.name,
               res |-> IF lk.acc = {} THEN NotFound ELSE Found(lk.acc)]
    /\ lk' = IdleLookup
    /\ UNCHANGED <<storeVars, disp, watchVars, mu>>

\* The wildcard ListServices: the same range over the live map, with one
\* direct ListServices per domain it produces; the result is never an error.
ListWildcardBegin ==
    /\ ~panicked
    /\ lk.pc = "idle"
    /\ lk' = [pc |-> "range", op |-> "ListServices", name |-> "", start |-> DOMAIN records,
              visited |-> {}, acc |-> {}, dirty |-> FALSE, hist |-> {records}]
    /\ UNCHANGED <<storeVars, disp, watchVars, ret, mu>>

ListWildcardIter(domain) ==
    /\ ~panicked
    /\ lk.pc = "range"
    /\ lk.op = "ListServices"
    /\ domain \in (DOMAIN records) \ lk.visited
    /\ lk' = [lk EXCEPT !.visited = @ \cup {domain},
                        !.acc = @ \cup ListDirect(records, domain).services]
    /\ UNCHANGED <<storeVars, disp, watchVars, ret, mu>>

ListWildcardReturn ==
    /\ ~panicked
    /\ lk.pc = "range"
    /\ lk.op = "ListServices"
    /\ lk.start \subseteq lk.visited
    /\ ret' = [op |-> "ListServices", domain |-> WildcardDomain, name |-> "",
               res |-> Found(lk.acc)]
    /\ lk' = IdleLookup
    /\ UNCHANGED <<storeVars, disp, watchVars, mu>>

\* -------------------------------------------------------------------- Watch

NoWatcher == [Service |-> "", Domain |-> "", made |-> FALSE]

WatchOptions(service, domain) == [Service |-> service, Domain |-> domain, made |-> TRUE]

\* uuid.New(): an id no watcher has yet (the ids are taken in the order of WatcherSeq).
NewId(w) == \E k \in 1..Len(WatcherSeq) :
    /\ WatcherSeq[k] = w
    /\ ~wo[w].made
    /\ \A j \in 1..(k - 1) : wo[WatcherSeq[j]].made

Watch(w, service, domain) ==
    /\ ~panicked
    /\ NewId(w)
    /\ wo' = [wo EXCEPT ![w] = WatchOptions(service, domain)]
    /\ watchers' = watchers \cup {w}
    /\ UNCHANGED <<storeVars, disp, exit, panicked, stop, next, lk, ret, mu>>

\* ---------------------------------------------------------------- sendEvent

\* The orders in which `range m.watchers` can produce the registry.
RECURSIVE Orders(_)
Orders(S) ==
    IF S = {} THEN {<<>>}
    ELSE UNION {{<<w>> \o o : o \in Orders(S \ {w})} : w \in S}

\* The goroutine goes on to the next watcher of its snapshot, or ends after the last.
Advance(d) ==
    IF d.i >= Len(d.snap) THEN IdleDisp ELSE [d EXCEPT !.pc = "loop", !.i = @ + 1]

\* The snapshot of the registry, under the read lock.
sendEventSnapshot(k) ==
    /\ ~panicked
    /\ disp[k].pc = "start"
    /\ \E o \in Orders(watchers) :
          disp' = [disp EXCEPT ![k] =
                      IF o = <<>> THEN IdleDisp ELSE [@ EXCEPT !.pc = "loop", !.snap = o, !.i = 1]]
    /\ UNCHANGED <<storeVars, watchVars, lk, ret, mu>>

\* A faulty visit, for comparison: the stopped watcher gets no delivery and
\* stays in the registry.
sendEventSkip(k) ==
    /\ ~panicked
    /\ disp[k].pc = "loop"
    /\ exit[disp[k].snap[disp[k].i]]
    /\ disp' = [disp EXCEPT ![k] = Advance(@)]
    /\ UNCHANGED <<storeVars, watchVars, lk, ret, mu>>

\* case <-w.exit: the watcher is stopped, it leaves the registry and gets no delivery.
sendEventRemove(k) ==
    /\ ~panicked
    /\ disp[k].pc = "loop"
    /\ exit[disp[k].snap[disp[k].i]]
    /\ watchers' = watchers \ {disp[k].snap[disp[k].i]}
    /\ disp' = [disp EXCEPT ![k] = Advance(@)]
    /\ UNCHANGED <<storeVars, wo, exit, panicked, stop, next, lk, ret, mu>>

\* default: the watcher is not stopped, the goroutine enters the inner select.
sendEventDefault(k) ==
    /\ ~panicked
    /\ disp[k].pc = "loop"
    /\ ~exit[disp[k].snap[disp[k].i]]
    /\ disp' = [disp EXCEPT ![k].pc = "send"]
    /\ UNCHANGED <<storeVars, watchVars, lk, ret, mu>>

\* A faulty send, for comparison: no timer, the goroutine waits in `w.res <- r`
\* until a receiver comes.
sendEventBlockingSend(k) ==
    /\ ~panicked
    /\ disp[k].pc = "send"
    /\ UNCHANGED vars

\* case <-time.After(sendEventTime): no receiver took the event in time.  A
\* receiver parked in Next's select takes the event at once, so the timer wins
\* only while the consumer is not in the select.
sendEventTimeout(k) ==
    /\ ~panicked
    /\ disp[k].pc = "send"
    /\ next[disp[k].snap[disp[k].i]].pc # "select"
    /\ disp' = [disp EXCEPT ![k] = Advance(@)]
    /\ UNCHANGED <<storeVars, watchVars, lk, ret, mu>>

\* ------------------------------------------------------------- Watcher.Next

\* The domain Next reads from the event: metadata["domain"], or the default
\* domain when the key is absent or empty.
EventDomain(s) == IF s.Domain = NoDomain THEN DefaultDomain ELSE s.Domain

\* A faulty filter, for comparison: the service name of the watcher is ignored.
FilterDomainOnly(o, r) ==
    IF r.Service.Nil THEN FALSE
    ELSE o.Domain = WildcardDomain \/ o.Domain = EventDomain(r.Service)

\* The event is returned (TRUE) or skipped (FALSE).
Filter(o, r) ==
    IF r.Service.Nil THEN FALSE
    ELSE IF o.Service # "" /\ o.Service # r.Service.Name THEN FALSE
    ELSE o.Domain = WildcardDomain \/ o.Domain = EventDomain(r.Service)

\* The consumer of a watcher: where its call of Next is, the event the call
\* returned, whether the call began after a Stop had returned, and whether the
\* call has consumed and skipped an event.
IdleNext == [pc |-> "idle", ev |-> NoEvent, afterStop |-> FALSE, skipped |-> FALSE]

\* Some Stop call on the watcher has returned.
StopReturned(w) == \E t \in DOMAIN stop : stop[t].pc = "done" /\ stop[t].w = w

\* A call of Next: the consumer enters the select.
NextBegin(w) ==
    /\ ~panicked
    /\ wo[w].made
    /\ next[w].pc # "select"
    /\ next' = [next EXCEPT ![w] = [pc |-> "select", ev |-> NoEvent,
                                       afterStop |-> StopReturned(w), skipped |-> FALSE]]
    /\ UNCHANGED <<storeVars, disp, watchers, wo, exit, panicked, stop, lk, ret, mu>>

\* case r := <-m.res: the unbuffered channel hands the event of a sender that
\* waits in `w.res <- r` to the consumer.  The event is returned when it passes
\* the filter; otherwise the loop goes back to the select.
NextRecv(w, k) ==
    /\ ~panicked
    /\ next[w].pc = "select"
    /\ disp[k].pc \in {"send", "push"}
    /\ disp[k].snap[disp[k].i] = w
    /\ next' = [next EXCEPT ![w] =
                   IF Filter(wo[w], disp[k].ev)
                   THEN [@ EXCEPT !.pc = "event", !.ev = disp[k].ev]
                   ELSE [@ EXCEPT !.skipped = TRUE]]
    /\ disp' = [disp EXCEPT ![k] = Advance(@)]
    /\ UNCHANGED <<storeVars, watchers, wo, exit, panicked, stop, lk, ret, mu>>

\* case <-m.exit: the call fails with "watcher stopped".
NextExit(w) ==
    /\ ~panicked
    /\ next[w].pc = "select"
    /\ exit[w]
    /\ next' = [next EXCEPT ![w].pc = "stopped"]
    /\ UNCHANGED <<storeVars, disp, watchers, wo, exit, panicked, stop, lk, ret, mu>>

\* ------------------------------------------------------------- Watcher.Stop

IdleStop == [pc |-> "idle", w |-> ""]

\* The select of Stop: return when exit is closed, else go on to close it.
StopSelect(t, w) ==
    /\ ~panicked
    /\ wo[w].made
    /\ stop[t].pc = "idle"
    /\ stop' = [stop EXCEPT ![t] = [pc |-> IF exit[w] THEN "done" ELSE "close", w |-> w]]
    /\ UNCHANGED <<storeVars, disp, watchers, wo, exit, panicked, next, lk, ret, mu>>

\* close(m.exit): closing a closed channel panics.
StopClose(t) ==
    /\ ~panicked
    /\ stop[t].pc = "close"
    /\ IF exit[stop[t].w]
       THEN /\ panicked' = TRUE
            /\ UNCHANGED <<exit, stop>>
       ELSE /\ exit' = [exit EXCEPT ![stop[t].w] = TRUE]
            /\ stop' = [stop EXCEPT ![t].pc = "done"]
            /\ UNCHANGED panicked
    /\ UNCHANGED <<storeVars, disp, watchers, wo, next, lk, ret, mu>>

\* ---------------------------------------------------- the test of the Watcher

\* go func() { w.res <- r }(): a goroutine that waits until a receiver takes r.
TestPush(w, r) ==
    /\ ~panicked
    /\ wo[w].made
    /\ FreeSlots(disp) # {}
    /\ disp' = [Go(disp, r) EXCEPT ![CHOOSE x \in FreeSlots(disp) : \A y \in FreeSlots(disp) : x <= y] =
                   [pc |-> "push", ev |-> r, snap |-> <<w>>, i |-> 1]]
    /\ UNCHANGED <<storeVars, watchVars, lk, ret, mu>>

\* ------------------------------------------------------ the lock of the store

\* The threads that take m.RWMutex: a caller of Init, Register, Deregister or Watch,
\* the goroutine of ttlPrune, a caller of LookupService or ListServices, and
\* the sendEvent goroutines.
SenderSeq == <<"sendEvent1", "sendEvent2", "sendEvent3">>
Senders == {SenderSeq[k] : k \in Slots}
LockThreads == {"caller", "reaper", "reader"} \cup Senders

\* A thread outside every operation.  pc: idle; lock, rlock (waiting in
\* m.Lock(), m.RLock()); locked, rlocked (holding); loop (in a range loop,
\* not holding).  left: the keys the range loop still has to produce.  depth:
\* 1 inside the recursive call of a wildcard query.  go: the critical section
\* has a `go m.sendEvent` to run.
IdleThread == [op |-> "", pc |-> "idle", left |-> 0, depth |-> 0, go |-> FALSE]

FreeLock == [writer |-> "", readers |-> {}, th |-> [t \in LockThreads |-> IdleThread]]

FreeSenders == {t \in Senders : mu.th[t].pc = "idle"}

\* Init, Register, Deregister and Watch begin with m.Lock(); Register and
\* Deregister may emit an event.
CallWrite(op, go) ==
    /\ mu.th["caller"].pc = "idle"
    /\ go => (op \in {"Register", "Deregister"} /\ FreeSenders # {})
    /\ mu' = [mu EXCEPT !.th["caller"] = [IdleThread EXCEPT !.op = op, !.pc = "lock", !.go = go]]
    /\ UNCHANGED <<storeVars, disp, watchVars, lk, ret>>

\* case <-prune.C: m.Lock()
CallPrune ==
    /\ mu.th["reaper"].pc = "idle"
    /\ mu' = [mu EXCEPT !.th["reaper"] = [IdleThread EXCEPT !.op = "ttlPrune", !.pc = "lock"]]
    /\ UNCHANGED <<storeVars, disp, watchVars, lk, ret>>

\* LookupService and ListServices begin with m.RLock(); with the wildcard
\* domain the map they then range over has n domains.
CallRead(op, wild, n) ==
    /\ mu.th["reader"].pc = "idle"
    /\ ~wild => n = 0
    /\ mu' = [mu EXCEPT !.th["reader"] =
                 [IdleThread EXCEPT !.op = IF wild THEN op \o "*" ELSE op,
                                    !.pc = "rlock", !.left = n]]
    /\ UNCHANGED <<storeVars, disp, watchVars, lk, ret>>

Ranging(t) == t \in Senders \/ mu.th[t].op \in {"LookupService*", "ListServices*"}

\* m.Lock() returns: no thread holds the lock.
MuLock(t) ==
    /\ mu.th[t].pc = "lock"
    /\ mu.writer = "" /\ mu.readers = {}
    /\ mu' = [mu EXCEPT !.writer = t, !.th[t].pc = "locked"]
    /\ UNCHANGED <<storeVars, disp, watchVars, lk, ret>>

\* go m.sendEvent(...) in the critical section of Register and Deregister: a
\* new goroutine, whose first statement is m.RLock(); its snapshot will have
\* n watchers.
LockedGo(t, n) ==
    /\ mu.th[t].pc = "locked"
    /\ mu.th[t].go
    /\ \E d \in FreeSenders :
          /\ \A e \in FreeSenders : \E i, j \in Slots : SenderSeq[i] = d /\ SenderSeq[j] = e /\ i <= j
          /\ mu' = [mu EXCEPT !.th[t].go = FALSE,
                              !.th[d] = [IdleThread EXCEPT !.op = "sendEvent", !.pc = "rlock", !.left = n]]
    /\ UNCHANGED <<storeVars, disp, watchVars, lk, ret>>

\* m.Unlock(): the end of a critical section.  The caller returns; a sendEvent
\* goroutine goes on with its loop.
MuUnlock(t) ==
    /\ mu.th[t].pc = "locked"
    /\ ~mu.th[t].go
    /\ mu' = [mu EXCEPT !.writer = "",
                        !.th[t] = IF Ranging(t) THEN [@ EXCEPT !.pc = "loop"] ELSE IdleThread]
    /\ UNCHANGED <<storeVars, disp, watchVars, lk, ret>>

\* m.RLock() returns: no writer holds the lock and none waits for it.
MuRLock(t) ==
    /\ mu.th[t].pc = "rlock"
    /\ mu.writer = ""
    /\ \A u \in LockThreads : mu.th[u].pc # "lock"
    /\ mu' = [mu EXCEPT !.readers = @ \cup {t}, !.th[t].pc = "rlocked"]
    /\ UNCHANGED <<storeVars, disp, watchVars, lk, ret>>

\* A faulty release, for comparison: the wildcard query keeps the read lock
\* while it ranges and recurses.
MuRUnlockDirectOnly(t) ==
    /\ mu.th[t].pc = "rlocked"
    /\ mu' = [mu EXCEPT !.readers = IF Ranging(t) /\ t \notin Senders /\ mu.th[t].depth = 0
                                    THEN @ ELSE @ \ {t},
                        !.th[t] = IF Ranging(t)
                                  THEN [@ EXCEPT !.pc = "loop", !.depth = 0]
                                  ELSE IdleThread]
    /\ UNCHANGED <<storeVars, disp, watchVars, lk, ret>>

\* m.RUnlock(): after the copy of the map header or of the watchers, and at
\* the return of a direct query (the recursive one included).
MuRUnlock(t) ==
    /\ mu.th[t].pc = "rlocked"
    /\ mu' = [mu EXCEPT !.readers = @ \ {t},
                        !.th[t] = IF Ranging(t)
                                  THEN [@ EXCEPT !.pc = "loop", !.depth = 0]
                                  ELSE IdleThread]
    /\ UNCHANGED <<storeVars, disp, watchVars, lk, ret>>

\* The range loop, outside the lock.  A wildcard query calls the direct query
\* for the next domain; sendEvent takes m.Lock() for a stopped watcher
\* (stopped) and sends to any other; after the last key the thread is done.
RangeStep(t, stopped) ==
    /\ mu.th[t].pc = "loop"
    /\ mu' = [mu EXCEPT !.th[t] =
                 IF @.left = 0 THEN IdleThread
                 ELSE IF t \in Senders
                 THEN [@ EXCEPT !.left = @ - 1, !.pc = IF stopped THEN "lock" ELSE "loop"]
                 ELSE [@ EXCEPT !.left = @ - 1, !.pc = "rlock", !.depth = 1]]
    /\ UNCHANGED <<storeVars, disp, watchVars, lk, ret>>

\* ------------------------------------------------------------ specifications

Init ==
    /\ records = EmptyMap
    /\ now = 0
    /\ ops = 0
    /\ disp = [k \in Slots |-> IdleDisp]
    /\ watchers = {}
    /\ wo = [w \in WatcherIds |-> NoWatcher]
    /\ exit = [w \in WatcherIds |-> FALSE]
    /\ panicked = FALSE
    /\ stop = [t \in 1..MaxStop |-> IdleStop]
    /\ next = [w \in WatcherIds |-> IdleNext]
    /\ lk = IdleLookup
    /\ ret = NoRet
    /\ mu = FreeLock

\* The writers of the store and the TTL sweep, with the clock: callers of
\* Register and Deregister on the versions of one service, and the event
\* goroutines (no watcher is registered).
UnknownTargets == {<<"d2", "foo">>, <<"d1", "bar">>}

NextStore ==
    \/ \E v \in Versions, ids \in SUBSET NodeIds, ttl \in TTLs :
          Register("d1", "foo", v, ids, ttl)
    \/ \E v \in Versions, ids \in SUBSET NodeIds : Deregister("d1", "foo", v, ids)
    \/ \E t \in UnknownTargets : Deregister(t[1], t[2], "v1", {"n1"})
    \/ ttlPrune
    \/ Tick
    \/ \E k \in Slots : sendEventSnapshot(k)

Spec == Init /\ [][NextStore]_vars

\* The readers of the store next to its writers: the nodes never expire
\* (TTL 0) and the clock stands still.
NextLookup ==
    \/ \E d \in Domains, v \in Versions, ids \in SUBSET NodeIds :
          Register(d, "foo", v, ids, 0)
    \/ \E d \in Domains, v \in Versions, ids \in SUBSET NodeIds :
          Deregister(d, "foo", v, ids)
    \/ \E d \in Domains, n \in Names : LookupService(d, n)
    \/ \E d \in Domains : ListServices(d)
    \/ \E k \in Slots : sendEventSnapshot(k)

SpecLookup == Init /\ [][NextLookup]_vars

\* The wildcard LookupService and ListServices next to the writers of the store.
NextWildcard ==
    \/ \E d \in Domains, v \in Versions : Register(d, "foo", v, {"n1"}, 0)
    \/ \E d \in Domains, v \in Versions : Deregister(d, "foo", v, {"n1"})
    \/ \E n \in Names : LookupWildcardBegin(n)
    \/ \E d \in Domains : LookupWildcardIter(d)
    \/ LookupWildcardReturn
    \/ ListWildcardBegin
    \/ \E d \in Domains : ListWildcardIter(d)
    \/ ListWildcardReturn
    \/ \E k \in Slots : sendEventSnapshot(k)

SpecWildcard == Init /\ [][NextWildcard]_vars

\* One watcher that takes every event (no service filter, the wildcard
\* domain): the fan-out of the events of Register and Deregister, the consumer
\* calling Next and the threads calling Stop.
NextWatch ==
    \/ Register("d1", "foo", "v1", {"n1"}, 0)
    \/ Deregister("d1", "foo", "v1", {"n1"})
    \/ Watch("w1", "", WildcardDomain)
    \/ \E k \in Slots : sendEventSnapshot(k)
    \/ \E k \in Slots : sendEventRemove(k)
    \/ \E k \in Slots : sendEventDefault(k)
    \/ \E k \in Slots : sendEventTimeout(k)
    \/ NextBegin("w1")
    \/ \E k \in Slots : NextRecv("w1", k)
    \/ NextExit("w1")
    \/ \E t \in 1..MaxStop : StopSelect(t, "w1")
    \/ \E t \in 1..MaxStop : StopClose(t)

SpecWatch == Init /\ [][NextWatch]_vars

\* Several watchers and their consumers, which may never call Next; Stop is
\* called by one thread.  The Go scheduler runs every goroutine that can take
\* a step, and the timer of the inner select of sendEvent fires: every step
\* of a sendEvent goroutine is weakly fair.
sendEventStep(k) ==
    \/ sendEventSnapshot(k)
    \/ sendEventRemove(k)
    \/ sendEventDefault(k)
    \/ sendEventTimeout(k)
    \/ \E w \in WatcherIds : NextRecv(w, k)

NextFair ==
    \/ Register("d1", "foo", "v1", {"n1"}, 0)
    \/ Deregister("d1", "foo", "v1", {"n1"})
    \/ \E w \in WatcherIds : Watch(w, "", WildcardDomain)
    \/ \E k \in Slots : sendEventSnapshot(k)
    \/ \E k \in Slots : sendEventRemove(k)
    \/ \E k \in Slots : sendEventDefault(k)
    \/ \E k \in Slots : sendEventTimeout(k)
    \/ \E w \in WatcherIds : NextBegin(w)
    \/ \E w \in WatcherIds, k \in Slots : NextRecv(w, k)
    \/ \E w \in WatcherIds : NextExit(w)
    \/ \E w \in WatcherIds : StopSelect(1, w)
    \/ StopClose(1)

SpecFair == Init /\ [][NextFair]_vars /\ \A k \in Slots : WF_vars(sendEventStep(k))

\* The filter of Next: watchers with every filter, the events of Register
\* for the service "bar" in every domain, and the results the test of the
\* Watcher pushes itself (a nil service, services with no metadata).
WatchServices == {"", "foo"}
WatchDomains == {WildcardDomain, "d1", DefaultDomain}
TestResults ==
    {Result("", NilService)} \cup {Result("", Service(n, "", NoDomain, {})) : n \in Names}

NextTest ==
    \/ \E d \in Domains : Register(d, "bar", "v1", {"n1"}, 0)
    \/ \E w \in WatcherIds, sv \in WatchServices, d \in WatchDomains : Watch(w, sv, d)
    \/ \E w \in WatcherIds, r \in TestResults : TestPush(w, r)
    \/ \E k \in Slots : sendEventSnapshot(k)
    \/ \E k \in Slots : sendEventDefault(k)
    \/ \E k \in Slots : sendEventTimeout(k)
    \/ \E w \in WatcherIds : NextBegin(w)
    \/ \E w \in WatcherIds, k \in Slots : NextRecv(w, k)

SpecTest == Init /\ [][NextTest]_vars

\* Deregister on a register that holds two versions of a service: the state
\* after Register(d1, foo, v1, ids1) and Register(d1, foo, v2, ids2), once the
\* goroutines of their create events have ended.  The nodes never expire.
TwoVersions(ids1, ids2) ==
    LET first == RegisterServices(EmptyMap, Service("foo", "v1", "d1", ids1), 0, 0)
    IN  Put(EmptyMap, "d1", RegisterServices(first, Service("foo", "v2", "d1", ids2), 0, 0))

InitVersions ==
    /\ \E ids1, ids2 \in SUBSET NodeIds : records = TwoVersions(ids1, ids2)
    /\ now = 0
    /\ ops = 0
    /\ disp = [k \in Slots |-> IdleDisp]
    /\ watchers = {}
    /\ wo = [w \in WatcherIds |-> NoWatcher]
    /\ exit = [w \in WatcherIds |-> FALSE]
    /\ panicked = FALSE
    /\ stop = [t \in 1..MaxStop |-> IdleStop]
    /\ next = [w \in WatcherIds |-> IdleNext]
    /\ lk = IdleLookup
    /\ ret = NoRet
    /\ mu = FreeLock

NextVersions ==
    \/ \E v \in Versions, ids \in SUBSET NodeIds : Register("d1", "foo", v, ids, 0)
    \/ \E v \in Versions, ids \in SUBSET NodeIds : Deregister("d1", "foo", v, ids)
    \/ \E k \in Slots : sendEventSnapshot(k)

SpecVersions == InitVersions /\ [][NextVersions]_vars

\* The order of the events at one watcher: a watcher of every service in every
\* domain is registered before any operation, its consumer calls Next again
\* and again, and Register and Deregister of one service each start their
\* own sendEvent goroutine, so that the goroutine of an operation can still be
\* running when the next operation starts another.  The Go scheduler runs
\* every goroutine that can take a step, and the consumer calls Next again as
\* soon as a call has returned: these steps are weakly fair.
OrderSlots == 1..(MaxDisp + 1)

InitOrder ==
    /\ records = EmptyMap
    /\ now = 0
    /\ ops = 0
    /\ disp = [k \in OrderSlots |-> IdleDisp]
    /\ watchers = {"w1"}
    /\ wo = [w \in WatcherIds |-> IF w = "w1" THEN WatchOptions("", WildcardDomain) ELSE NoWatcher]
    /\ exit = [w \in WatcherIds |-> FALSE]
    /\ panicked = FALSE
    /\ stop = [t \in 1..MaxStop |-> IdleStop]
    /\ next = [w \in WatcherIds |-> IdleNext]
    /\ lk = IdleLookup
    /\ ret = NoRet
    /\ mu = FreeLock

NextOrder ==
    \/ \E ids \in SUBSET NodeIds : Register("d1", "foo", "v1", ids, 0)
    \/ \E ids \in SUBSET NodeIds : Deregister("d1", "foo", "v1", ids)
    \/ \E k \in OrderSlots : sendEventSnapshot(k)
    \/ \E k \in OrderSlots : sendEventDefault(k)
    \/ \E k \in OrderSlots : sendEventTimeout(k)
    \/ NextBegin("w1")
    \/ \E k \in OrderSlots : NextRecv("w1", k)

SpecOrder ==
    /\ InitOrder /\ [][NextOrder]_vars
    /\ \A k \in OrderSlots : WF_vars(sendEventStep(k))
    /\ WF_vars(NextBegin("w1"))

\* The threads that take the lock of the store, each at its own pace.
NextLock ==
    \/ \E op \in {"Init", "Register", "Deregister", "Watch"}, go \in BOOLEAN : CallWrite(op, go)
    \/ CallPrune
    \/ \E op \in {"LookupService", "ListServices"}, wild \in BOOLEAN, n \in 0..MaxRange :
          CallRead(op, wild, n)
    \/ \E t \in LockThreads : MuLock(t)
    \/ \E t \in LockThreads, n \in 0..MaxRange : LockedGo(t, n)
    \/ \E t \in LockThreads : MuUnlock(t)
    \/ \E t \in LockThreads : MuRLock(t)
    \/ \E t \in LockThreads : MuRUnlock(t)
    \/ \E t \in LockThreads, stopped \in BOOLEAN : RangeStep(t, stopped)

SpecLock == Init /\ [][NextLock]_vars

\* ------------------------------------------------------------------ claims

\* C1: once Stop has returned on a watcher, no call of Next begun afterwards
\* on that watcher returns an event (it fails with "watcher stopped").
C1_NextAfterStopFails ==
    \A w \in WatcherIds : next[w].afterStop => next[w].pc # "event"

\* C2: however many threads call Stop on a watcher, its exit channel is closed
\* once: no call closes a closed channel, which panics.
C2_StopClosesOnce == ~panicked

\* The steps a sendEvent goroutine may take, and what must stay possible while it runs.
C3_Progress(k) ==
    \/ disp'[k] = disp[k]
    \/ disp[k].pc = "idle" /\ disp'[k].pc = "start"
    \/ disp[k].pc = "start" /\ disp'[k].pc = "idle" /\ watchers = {}
    \/ disp[k].pc = "start" /\ disp'[k].pc = "loop" /\ disp'[k].i = 1
          /\ disp'[k].snap \in Orders(watchers)
    \/ disp[k].pc = "loop" /\ disp'[k].pc = "send" /\ disp'[k].i = disp[k].i
          /\ disp'[k].snap = disp[k].snap
    \/ disp[k].pc \in {"loop", "send"} /\ disp'[k].pc = "loop" /\ disp'[k].i = disp[k].i + 1
          /\ disp'[k].snap = disp[k].snap /\ disp[k].i < Len(disp[k].snap)
    \/ disp[k].pc \in {"loop", "send"} /\ disp'[k].pc = "idle" /\ disp[k].i = Len(disp[k].snap)

C3_NoWaiting ==
    /\ \A k \in Slots :
          (disp[k].pc = "send" /\ next[disp[k].snap[disp[k].i]].pc # "select")
              => ENABLED sendEventTimeout(k)
    /\ (ops < MaxOps /\ FreeSlots(disp) # {})
          => /\ ENABLED Register("d1", "foo", "v1", {"n1"}, 0)
             /\ ENABLED Deregister("d1", "foo", "v1", {"n1"})

C4_Passes(o, r) ==
    /\ ~r.Service.Nil
    /\ o.Service = "" \/ o.Service = r.Service.Name
    /\ \/ o.Domain = WildcardDomain
       \/ r.Service.Domain # "" /\ o.Domain = r.Service.Domain
       \/ r.Service.Domain = "" /\ o.Domain = DefaultDomain

C4_Recv(w, k) ==
    NextRecv(w, k) =>
        /\ disp'[k] # disp[k]
        /\ IF C4_Passes(wo[w], disp[k].ev)
           THEN next'[w].pc = "event" /\ next'[w].ev = disp[k].ev
           ELSE next'[w].pc = "select"

\* C4: Next returns an event only if its service is not nil, the watcher's
\* service filter is empty or is the service's name, and the watcher's domain
\* filter is the wildcard or is the metadata domain of the service (the
\* default domain when there is none); any other event is consumed and Next
\* goes on waiting.
C4_NextReturnsOnlyFiltered ==
    /\ [](\A w \in WatcherIds : next[w].pc = "event" => C4_Passes(wo[w], next[w].ev))
    /\ [][\A w \in WatcherIds, k \in Slots : C4_Recv(w, k)]_vars

\* A watcher filtered to "foo" has consumed and skipped an event and still
\* waits, while an unfiltered watcher has returned an event of service "bar".
C4_Witness ==
    \E w, u \in WatcherIds :
        /\ wo[w].made /\ wo[w].Service = "foo"
        /\ next[w].pc = "select" /\ next[w].skipped
        /\ wo[u].made /\ wo[u].Service = ""
        /\ next[u].pc = "event" /\ next[u].ev.Service.Name = "bar"
        /\ next[u].ev.Action = "create"

\* The names ListServices returns, and the step conditions on Deregister, Register and lookups.
C5_NamesListed(recs, d) == {sv.Name : sv \in ListDirect(recs, d).services}

C5_Deregister(d, n, v, ids) ==
    (/\ Known(records, d, n, v)
     /\ DOMAIN records[d][n] = {v}
     /\ DOMAIN records[d][n][v].Nodes # {}
     /\ DOMAIN records[d][n][v].Nodes \subseteq ids
     /\ Deregister(d, n, v, ids))
    => /\ LookupDirect(records', d, n) = NotFound
       /\ n \notin C5_NamesListed(records', d)

C5_Register(d, n, v, ids) ==
    Register(d, n, v, ids, 0)
    => \E sv \in LookupDirect(records', d, n).services :
          /\ sv.Version = v
          /\ sv.Nodes = ids \cup (IF Known(records, d, n, v)
                                  THEN DOMAIN records[d][n][v].Nodes ELSE {})

C5_Until(d, n) ==
    (LookupDirect(records, d, n) = NotFound /\ LookupDirect(records', d, n) # NotFound)
    => \E v \in Versions, ids \in SUBSET NodeIds : Register(d, n, v, ids, 0)

\* C5: a Deregister that removes the last nodes of the only version of a
\* service leaves LookupService of the name NotFound and ListServices of the
\* domain without the service; a name that is NotFound stays so until a
\* Register step; and after a Register the lookup returns the version with
\* the nodes it had and the registered ones.
C5_AbsentAfterLastDeregister ==
    [][ops' # ops =>
          /\ \A d \in Domains, n \in Names, v \in Versions, ids \in SUBSET NodeIds :
                C5_Deregister(d, n, v, ids) /\ C5_Register(d, n, v, ids)
          /\ \A d \in Domains, n \in Names : C5_Until(d, n)]_vars

\* The only service of domain d1 is gone, and LookupService has returned
\* NotFound for it.
C5_Witness ==
    /\ "d1" \in DOMAIN records
    /\ "foo" \notin DOMAIN records["d1"]
    /\ ret = [op |-> "LookupService", domain |-> "d1", name |-> "foo", res |-> NotFound]

\* The effect of one Deregister of an unknown target.
C6_Deregister(d, n, v, ids) ==
    (~Known(records, d, n, v) /\ Deregister(d, n, v, ids))
    => records' = records /\ disp' = disp

\* C6: a Deregister of a domain, name or version that is not in the store
\* changes nothing in the store and emits no event.
C6_DeregisterUnknownIsNoop ==
    [][ops' # ops => \A d \in Domains, n \in Names, v \in Versions, ids \in SUBSET NodeIds :
          C6_Deregister(d, n, v, ids)]_vars

\* Deregister was called on the empty store: no domain is stored, and no
\* sendEvent goroutine was started.
C6_Witness ==
    /\ ops > 0
    /\ records = EmptyMap
    /\ \A k \in Slots : disp[k].pc = "idle"

\* The nodes of a version after a refresh, and the effect of one refreshing Register.
C7_Refreshed(nodes, ids, ttl, t) ==
    [id \in DOMAIN nodes |->
        IF id \in ids
        THEN [TTL |-> ttl, LastSeen |-> t, Domain |-> nodes[id].Domain]
        ELSE nodes[id]]

C7_Register(d, n, v, ids, ttl) ==
    (/\ Known(records, d, n, v)
     /\ ids \subseteq DOMAIN records[d][n][v].Nodes
     /\ Register(d, n, v, ids, ttl))
    => /\ records' = [records EXCEPT ![d][n][v].Nodes = C7_Refreshed(@, ids, ttl, now)]
       /\ disp' = disp

\* C7: a Register of an existing version whose requested nodes are all
\* present sets the TTL and the last-seen time of the requested nodes, leaves
\* everything else in the store as it was and emits no event.
C7_RefreshOnly ==
    [][ops' # ops => \A d \in Domains, n \in Names, v \in Versions, ids \in SUBSET NodeIds, ttl \in TTLs :
          C7_Register(d, n, v, ids, ttl)]_vars

\* Two nodes stored by the call that created their version (no domain in
\* their metadata), one of them refreshed by a later call at a later time
\* with another TTL.
C7_Witness ==
    \E v \in Versions :
        /\ Known(records, "d1", "foo", v)
        /\ DOMAIN records["d1"]["foo"][v].Nodes = {"n1", "n2"}
        /\ LET nodes == records["d1"]["foo"][v].Nodes
           IN  /\ nodes["n1"].Domain = NoDomain /\ nodes["n2"].Domain = NoDomain
               /\ nodes["n1"].LastSeen > nodes["n2"].LastSeen
               /\ nodes["n1"].TTL # nodes["n2"].TTL

\* The effect of one Register whose node ids are new to the version.
C8_Register(d, n, v, ids, ttl) ==
    LET old == IF Known(records, d, n, v) THEN records[d][n][v].Nodes ELSE EmptyMap
    IN  (ids \cap DOMAIN old = {} /\ Register(d, n, v, ids, ttl))
        => /\ Known(records', d, n, v)
           /\ DOMAIN records'[d][n][v].Nodes = ids \cup DOMAIN old
           /\ \A id \in ids :
                 /\ records'[d][n][v].Nodes[id].TTL = ttl
                 /\ records'[d][n][v].Nodes[id].LastSeen = now
           /\ \A id \in DOMAIN old : records'[d][n][v].Nodes[id] = old[id]

\* C8: a Register whose node ids are all new to the version adds them to the
\* nodes the version has, each with the TTL and the time of the call, and
\* leaves the nodes of earlier calls as they were written.
C8_DistinctNodesUnion ==
    [][ops' # ops => \A d \in Domains, n \in Names, v \in Versions, ids \in SUBSET NodeIds, ttl \in TTLs :
          C8_Register(d, n, v, ids, ttl)]_vars

\* A version with a node of the call that created it and a node added by a
\* later call, at a later time with another TTL.
C8_Witness ==
    \E v \in Versions :
        /\ Known(records, "d1", "foo", v)
        /\ DOMAIN records["d1"]["foo"][v].Nodes = {"n1", "n2"}
        /\ LET nodes == records["d1"]["foo"][v].Nodes
           IN  /\ nodes["n1"].Domain = NoDomain /\ nodes["n2"].Domain = "d1"
               /\ nodes["n2"].LastSeen > nodes["n1"].LastSeen
               /\ nodes["n2"].TTL # nodes["n1"].TTL

\* The result of one direct LookupService, from the store it reads.
C9_Lookup(d, n) ==
    LookupService(d, n) =>
        IF \/ d \notin DOMAIN records
           \/ n \notin DOMAIN records[d]
           \/ DOMAIN records[d][n] = {}
        THEN ret'.res = NotFound
        ELSE /\ ret'.res.err = ""
             /\ Cardinality(ret'.res.services) = Cardinality(DOMAIN records[d][n])
             /\ \A v \in DOMAIN records[d][n] :
                   \E sv \in ret'.res.services :
                       /\ sv.Name = n
                       /\ sv.Version = v
                       /\ sv.Nodes = DOMAIN records[d][n][v].Nodes

\* C9: a direct LookupService returns NotFound exactly when the domain is
\* not in the store, the name is not in the domain or the name has no
\* version; otherwise one Service per stored version, with the ids of the
\* nodes of that version.
C9_DirectLookup ==
    [][ret' # ret => \A d \in Domains, n \in Names : C9_Lookup(d, n)]_vars

\* LookupService has returned the two versions of a service.
C9_Witness ==
    /\ ret.op = "LookupService"
    /\ ret.domain \in Domains
    /\ ret.res.err = ""
    /\ Cardinality(ret.res.services) = 2

\* The result a wildcard lookup owes, from the store.
C10_Expected(recs, n) ==
    LET found == {d \in DOMAIN recs : n \in DOMAIN recs[d] /\ DOMAIN recs[d][n] # {}}
        all == UNION {{Service(n, v, d, DOMAIN recs[d][n][v].Nodes) : v \in DOMAIN recs[d][n]} :
                        d \in found}
    IN  IF found = {} THEN NotFound ELSE Found(all)

\* C10: a wildcard LookupService that no write to the store interleaves with
\* returns the services of the direct lookups of every domain of the store,
\* and NotFound exactly when no domain has the name.
C10_WildcardLookup ==
    [][(LookupWildcardReturn /\ ~lk.dirty)
          => ret'.res = C10_Expected(records, lk.name)]_vars

\* The wildcard lookup has returned services of both domains.
C10_Witness ==
    /\ ret.domain = WildcardDomain
    /\ \E s1, s2 \in ret.res.services : s1.Domain = "d1" /\ s2.Domain = "d2"

\* The nodes of a version a sweep at time t owes to keep: those with TTL 0
\* and those whose age is at most their TTL.
C11_Kept(nodes, t) ==
    {id \in DOMAIN nodes : nodes[id].TTL = 0 \/ t - nodes[id].LastSeen <= nodes[id].TTL}

\* C11: a sweep deletes exactly the nodes whose TTL is not zero and whose age
\* is greater than the TTL: an expired node is absent after the sweep, a node
\* refreshed within its TTL and a node with TTL 0 are still there.
C11_SweepDeletesExpired ==
    [][ttlPrune =>
          \A d \in DOMAIN records : \A n \in DOMAIN records[d] : \A v \in DOMAIN records[d][n] :
              /\ Known(records', d, n, v)
              /\ DOMAIN records'[d][n][v].Nodes = C11_Kept(records[d][n][v].Nodes, now)]_vars

\* Two Register calls at time 0 and no other call: n1 of v1 with TTL 1 (the
\* create event still names it) is gone after the sweep at time 2, n1 of v2
\* with TTL 0 is still stored.
C11_Witness ==
    /\ now = 2
    /\ ops = 2
    /\ Known(records, "d1", "foo", "v1") /\ Known(records, "d1", "foo", "v2")
    /\ disp[1].pc = "start"
    /\ disp[1].ev = Result("create", Service("foo", "v1", "d1", {"n1"}))
    /\ DOMAIN records["d1"]["foo"]["v1"].Nodes = {}
    /\ DOMAIN records["d1"]["foo"]["v2"].Nodes = {"n1"}
    /\ records["d1"]["foo"]["v2"].Nodes["n1"].TTL = 0
    /\ records["d1"]["foo"]["v2"].Nodes["n1"].LastSeen = 0

\* What a service tells of the store: its name, version and node ids.
C12_Content(services) ==
    {[Name |-> sv.Name, Version |-> sv.Version, Nodes |-> sv.Nodes] : sv \in services}

\* The result the wildcard call op owes for the store recs: the content of
\* every domain at once.
C12_Atomic(recs, op, name) ==
    LET all == UNION {UNION {{[Name |-> n, Version |-> v, Nodes |-> DOMAIN recs[d][n][v].Nodes] :
                                v \in DOMAIN recs[d][n]} :
                             n \in {x \in DOMAIN recs[d] : op = "ListServices" \/ x = name}} :
                      d \in DOMAIN recs}
    IN  [err |-> IF op = "LookupService" /\ all = {} THEN "not found" ELSE "", content |-> all]

C12_ResultAtomic ==
    (LookupWildcardReturn \/ ListWildcardReturn)
    => \E r \in lk.hist :
          [err |-> ret'.res.err, content |-> C12_Content(ret'.res.services)]
              = C12_Atomic(r, lk.op, lk.name)

\* C12: the result of a wildcard LookupService or ListServices is the content
\* the store had at one instant between the call and its return, and no domain
\* is added to the domain map while a reader ranges over it.
C12_OperationsAtomic ==
    /\ [][C12_ResultAtomic]_vars
    /\ [][lk.pc = "range" => DOMAIN records' = DOMAIN records]_vars

\* The sendEvent goroutines a step starts.
C13_Started == {k \in Slots : disp[k].pc = "idle" /\ disp'[k].pc = "start"}

\* C13: the service of every event Register or Deregister emits has the nodes
\* its record has in the store right after the call.
C13_EventCarriesStoredRecord ==
    [][\A k \in C13_Started :
          LET sv == disp'[k].ev.Service
          IN  Known(records', sv.Domain, sv.Name, sv.Version)
                 => sv.Nodes = DOMAIN records'[sv.Domain][sv.Name][sv.Version].Nodes]_vars

\* The events one Register call owes: a create when the version was absent,
\* an update when a requested id was not stored before the call.
C14_Register(d, n, v, ids, ttl) ==
    Register(d, n, v, ids, ttl) =>
        LET absent == ~Known(records, d, n, v)
            added == IF absent THEN ids ELSE ids \ DOMAIN records[d][n][v].Nodes
            emitted(a) == {k \in C13_Started : disp'[k].ev.Action = a}
        IN  /\ Cardinality(emitted("create")) = (IF absent THEN 1 ELSE 0)
            /\ Cardinality(emitted("update")) = (IF added # {} THEN 1 ELSE 0)

\* C14: Register emits a create event exactly when the version was absent and
\* one update event exactly when the call added a node, the update coming with
\* the create when the version is new.
C14_CreateAndUpdate ==
    [][ops' # ops =>
          \A d \in Domains, n \in Names, v \in Versions, ids \in SUBSET NodeIds, ttl \in TTLs :
              C14_Register(d, n, v, ids, ttl)]_vars

\* The requested nodes one Register call found in the store, after the call.
C15_Register(d, n, v, ids, ttl) ==
    (Known(records, d, n, v) /\ Register(d, n, v, ids, ttl))
    => \A id \in ids \cap DOMAIN records[d][n][v].Nodes :
          /\ records'[d][n][v].Nodes[id].TTL = ttl
          /\ records'[d][n][v].Nodes[id].LastSeen = now

\* C15: after a Register every requested node that was present before the call
\* has the TTL and the time of the call, also when the call adds other nodes.
C15_PresentNodesRefreshed ==
    [][ops' # ops =>
          \A d \in Domains, n \in Names, v \in Versions, ids \in SUBSET NodeIds, ttl \in TTLs :
              C15_Register(d, n, v, ids, ttl)]_vars

\* C16: every node in the store has, in its metadata, the domain it is stored
\* under.
C16_NodesCarryDomain ==
    \A d \in DOMAIN records : \A n \in DOMAIN records[d] : \A v \in DOMAIN records[d][n] :
        \A id \in DOMAIN records[d][n][v].Nodes : records[d][n][v].Nodes[id].Domain = d

\* C17: the store has no empty level: no domain without a service, no service
\* without a version, no version without a node.
C17_NoEmptyLevel ==
    \A d \in DOMAIN records :
        /\ DOMAIN records[d] # {}
        /\ \A n \in DOMAIN records[d] :
              /\ DOMAIN records[d][n] # {}
              /\ \A v \in DOMAIN records[d][n] : DOMAIN records[d][n][v].Nodes # {}

\* The effect of one Deregister of a version the store has: the store after
\* it and the one event it emits.
C18_Deregister(d, n, v, ids) ==
    (Known(records, d, n, v) /\ Deregister(d, n, v, ids))
    => LET old == records[d][n][v].Nodes
           left == (DOMAIN old) \ ids
           others == (DOMAIN records[d][n]) \ {v}
           action == IF left # {} THEN "update" ELSE "delete"
       IN  /\ Cardinality(C13_Started) = 1
           /\ \A k \in C13_Started : disp'[k].ev = Result(action, Service(n, v, d, ids))
           /\ \A k \in Slots \ C13_Started : disp'[k] = disp[k]
           /\ \A e \in (DOMAIN records) \ {d} : e \in DOMAIN records' /\ records'[e] = records[e]
           /\ d \in DOMAIN records'
           /\ \A m \in (DOMAIN records[d]) \ {n} :
                 m \in DOMAIN records'[d] /\ records'[d][m] = records[d][m]
           /\ IF left # {}
              THEN /\ Known(records', d, n, v)
                   /\ DOMAIN records'[d][n] = DOMAIN records[d][n]
                   /\ \A w \in others : records'[d][n][w] = records[d][n][w]
                   /\ DOMAIN records'[d][n][v].Nodes = left
                   /\ \A id \in left : records'[d][n][v].Nodes[id] = old[id]
              ELSE IF others # {}
              THEN /\ n \in DOMAIN records'[d]
                   /\ DOMAIN records'[d][n] = others
                   /\ \A w \in others : records'[d][n][w] = records[d][n][w]
              ELSE n \notin DOMAIN records'[d]

\* C18: Deregister of an existing version removes the listed nodes that are
\* present and nothing else; with nodes left the record stays and one update
\* is emitted; with none left the version alone is removed when the name has
\* other versions, the whole name when it has not, and one delete is emitted.
C18_DeregisterExisting ==
    [][ops' # ops =>
          \A d \in Domains, n \in Names, v \in Versions, ids \in SUBSET NodeIds :
              C18_Deregister(d, n, v, ids)]_vars

\* The only call so far removed v1 with its last nodes: v2 is as it was
\* stored, and the delete event of v1 is on its way.
C18_Witness ==
    /\ ops = 1
    /\ Known(records, "d1", "foo", "v2")
    /\ DOMAIN records["d1"]["foo"] = {"v2"}
    /\ DOMAIN records["d1"]["foo"]["v2"].Nodes = {"n1", "n2"}
    /\ \E k \in Slots :
          /\ disp[k].pc = "start"
          /\ disp[k].ev.Action = "delete"
          /\ disp[k].ev.Service.Version = "v1"
          /\ disp[k].ev.Service.Nodes = {"n1"}

\* The versions LookupService returns for a name, and the (name, version)
\* pairs ListServices returns for a domain.
C19_Versions(recs, d, n) == {sv.Version : sv \in LookupDirect(recs, d, n).services}

C19_Listed(recs, d) == {<<sv.Name, sv.Version>> : sv \in ListDirect(recs, d).services}

\* C19: a sweep changes node maps only: it adds and removes no domain, name
\* or version (a version with no node left stays, and LookupService and
\* ListServices still return it), it leaves every surviving node as it was,
\* it leaves the watchers alone and it starts no sendEvent goroutine.
C19_SweepChangesNodesOnly ==
    [][ttlPrune =>
          /\ DOMAIN records' = DOMAIN records
          /\ \A d \in DOMAIN records :
                /\ DOMAIN records'[d] = DOMAIN records[d]
                /\ C19_Listed(records', d) = C19_Listed(records, d)
                /\ \A n \in DOMAIN records[d] :
                      /\ DOMAIN records'[d][n] = DOMAIN records[d][n]
                      /\ C19_Versions(records', d, n) = C19_Versions(records, d, n)
                      /\ LookupDirect(records', d, n).err = LookupDirect(records, d, n).err
                      /\ \A v \in DOMAIN records[d][n] :
                            /\ [records'[d][n][v] EXCEPT !.Nodes = <<>>]
                                  = [records[d][n][v] EXCEPT !.Nodes = <<>>]
                            /\ \A id \in DOMAIN records'[d][n][v].Nodes :
                                  /\ id \in DOMAIN records[d][n][v].Nodes
                                  /\ records'[d][n][v].Nodes[id] = records[d][n][v].Nodes[id]
          /\ UNCHANGED <<watchers, wo, exit, disp>>]_vars

\* After one Register call, with TTL 1 at time 0, and a sweep at time 2: the
\* version has lost its two nodes, and a lookup of the name finds it.
C19_Witness ==
    /\ now = 2
    /\ ops = 1
    /\ \E k \in Slots :
          /\ disp[k].pc = "start"
          /\ disp[k].ev = Result("create", Service("foo", "v1", "d1", {"n1", "n2"}))
    /\ Known(records, "d1", "foo", "v1")
    /\ DOMAIN records["d1"]["foo"]["v1"].Nodes = {}
    /\ C19_Versions(records, "d1", "foo") = {"v1"}
    /\ C19_Listed(records, "d1") = {<<"foo", "v1">>}

\* The services ListServices owes for a domain: one per (name, version) of
\* the domain, with the domain in its metadata; none for an absent domain.
C20_Owed(recs, d) ==
    IF d \notin DOMAIN recs THEN {}
    ELSE UNION {{Service(n, v, d, DOMAIN recs[d][n][v].Nodes) : v \in DOMAIN recs[d][n]} :
                  n \in DOMAIN recs[d]}

\* C20: every Service that LookupService or ListServices returns has the
\* domain its record is stored under in its metadata; ListServices of a domain
\* returns one such Service per (name, version) of the domain, and an empty
\* result without error for a domain the store does not have.
C20_ResultsCarryDomain ==
    [][ret' # ret =>
          /\ \A d \in Domains : ListServices(d) => ret'.res = Found(C20_Owed(records, d))
          /\ \A d \in Domains, n \in Names :
                LookupService(d, n) => \A sv \in ret'.res.services : sv.Domain = d]_vars

\* The visit of a watcher by the sendEvent goroutine k: the step that leaves
\* the outer select for the watcher snap[i].
C21_Visit(k) ==
    (disp[k].pc = "loop" /\ disp'[k] # disp[k])
    => LET w == disp[k].snap[disp[k].i]
       IN  IF exit[w]
           THEN /\ watchers' = watchers \ {w}
                /\ disp'[k].pc # "send"
                /\ disp'[k].pc = "loop" => disp'[k].i = disp[k].i + 1
           ELSE /\ watchers' = watchers
                /\ disp'[k].pc = "send"
                /\ disp'[k].i = disp[k].i

\* C21: a sendEvent goroutine that visits a watcher whose exit channel is
\* closed removes it from the registry and does not send to it; a watcher is
\* removed from the registry by such a visit only, so never while its exit
\* channel is open and never by Stop.
C21_StoppedWatcherRemovedByVisit ==
    /\ [][\A k \in Slots : C21_Visit(k)]_vars
    /\ [][\A w \in watchers \ watchers' :
              /\ exit[w]
              /\ stop' = stop
              /\ \E k \in Slots :
                    /\ disp[k].pc = "loop"
                    /\ disp[k].snap[disp[k].i] = w
                    /\ disp'[k] # disp[k]]_vars
    /\ [][stop' # stop => watchers' = watchers]_vars

\* A stopped watcher has left the registry while Stop has returned, and the
\* other watcher, which is not stopped, is registered.
C21_Witness ==
    \E w, u \in WatcherIds :
        /\ wo[w].made /\ exit[w] /\ w \notin watchers
        /\ StopReturned(w)
        /\ wo[u].made /\ ~exit[u] /\ u \in watchers

\* C22: the store lock is never taken by a thread that already holds it: a
\* thread waiting in m.Lock() or m.RLock() holds the lock in neither mode,
\* the thread of Init, Register, Deregister and Watch never waits for the read lock
\* (event dispatch is not run by it, inside its critical section or
\* elsewhere), a wildcard query in its range loop or its recursive call holds
\* nothing, and whenever some thread is inside an operation some thread can
\* take a step (no deadlock on the lock).
C22_NoReentrantLock ==
    /\ \A t \in LockThreads :
          /\ mu.th[t].pc \in {"lock", "rlock", "loop"} => (mu.writer # t /\ t \notin mu.readers)
          /\ mu.th[t].pc = "locked" <=> mu.writer = t
          /\ mu.th[t].pc = "rlocked" <=> t \in mu.readers
    /\ mu.th["caller"].pc \in {"idle", "lock", "locked"}
    /\ mu.th["reaper"].pc \in {"idle", "lock", "locked"}
    /\ mu.writer # "" => mu.readers = {}
    /\ (\E t \in LockThreads : mu.th[t].pc # "idle")
         => ENABLED (\E t \in LockThreads :
                       \/ MuLock(t) \/ MuUnlock(t) \/ MuRLock(t) \/ MuRUnlock(t)
                       \/ \E n \in 0..MaxRange : LockedGo(t, n)
                       \/ \E stopped \in BOOLEAN : RangeStep(t, stopped))

\* A sendEvent goroutine started by the critical section waits for the read
\* lock while its caller still holds the write lock, and a wildcard query is
\* in the recursive call for one of its domains while a writer waits.
C22_Witness ==
    /\ mu.writer = "caller"
    /\ \E d \in Senders : mu.th[d].pc = "rlock"
    /\ mu.th["reader"].depth = 1 /\ mu.th["reader"].pc = "rlock"
    /\ mu.th["reaper"].pc = "lock"

\* The call of Next of the watcher w1 has returned the event `action` of the
\* service d1/foo/v1.
C23_Returned(action) ==
    /\ next["w1"].pc = "event"
    /\ next["w1"].ev.Action = action
    /\ ~next["w1"].ev.Service.Nil
    /\ next["w1"].ev.Service.Name = "foo"
    /\ next["w1"].ev.Service.Version = "v1"

\* C23: events reach a watcher in the order of their operations.  The
\* watcher w1 is registered before every operation and calls Next again and
\* again.  Among the first two operations on an empty store the create of a
\* service comes before its delete (Deregister of an unknown service emits
\* nothing), so once Next has returned the delete of d1/foo/v1, Next does not return
\* the create of d1/foo/v1 unless a third operation has been applied.
C23_EventsInOperationOrder ==
    [](C23_Returned("delete") => [](C23_Returned("create") => ops > 2))

====
